---- MODULE Spec2Model ----
(***************************************************************************)
(* bgpreader (tools/bgpreader.c): the command-line driver of the BGPStream *)
(* engine.  main() parses argv with getopt, binds the -o entries against   *)
(* the selected data interface, programs the engine's filters, starts the  *)
(* engine, pulls records in a do/while loop, prints them and tears down.   *)
(*                                                                         *)
(* Strings are sequences of one-character strings, so that getopt, strchr  *)
(* and atoi are computed character by character as the C code does.        *)
(* The engine (libbgpstream) is the environment: every value it returns is *)
(* chosen nondeterministically, and every call made on it is appended to   *)
(* the log `calls`.                                                        *)
(***************************************************************************)
EXTENDS Integers, Sequences, FiniteSets, TLC

(* ------------------------------ bounds --------------------------------- *)
\* longest command line (number of argv words after argv[0]) of Spec
MaxArgs == 3
\* most records the engine yields in one run of SpecStream
MaxRecords == 2
\* most elements the engine yields for one record in SpecStream
MaxElems == 2
\* longest command line of SpecBind
MaxBindArgs == 4
\* longest command line of SpecFilter
MaxFilterArgs == 3

(* ------------------------- program constants --------------------------- *)
PROJECT_CMD_CNT == 10
TYPE_CMD_CNT == 10
COLLECTOR_CMD_CNT == 100
WINDOW_CMD_CNT == 1024
OPTION_CMD_CNT == 1024

\* getopt's option string "d:o:p:c:t:w:P:brmeh?"
ArgOpts == {"d", "o", "p", "c", "t", "w", "P"}
FlagOpts == {"b", "r", "m", "e", "h", "?"}
OptChars == ArgOpts \cup FlagOpts

(* ------------------------------ strings -------------------------------- *)
Digits == <<"0", "1", "2", "3", "4", "5", "6", "7", "8", "9">>
IsDigit(c) == \E d \in 1..10 : Digits[d] = c
DigitVal(c) == (CHOOSE d \in 1..10 : Digits[d] = c) - 1

\* strchr(s, ','): index of the first comma of s, 0 for NULL
RECURSIVE StrchrFrom(_, _, _)
StrchrFrom(s, c, k) ==
    IF k > Len(s) THEN 0
    ELSE IF s[k] = c THEN k
    ELSE StrchrFrom(s, c, k + 1)
Strchr(s, c) == StrchrFrom(s, c, 1)

\* atoi(s): optional sign, then the leading decimal digits; 0 when there
\* is none.  Whatever follows the digits is ignored.
RECURSIVE AtoiDigits(_, _, _)
AtoiDigits(s, k, acc) ==
    IF k > Len(s) \/ ~IsDigit(s[k]) THEN acc
    ELSE AtoiDigits(s, k + 1, acc * 10 + DigitVal(s[k]))
Atoi(s) ==
    IF Len(s) = 0 THEN 0
    ELSE IF s[1] = "-" THEN 0 - AtoiDigits(s, 2, 0)
    ELSE IF s[1] = "+" THEN AtoiDigits(s, 2, 0)
    ELSE AtoiDigits(s, 1, 0)
\* conversion of an int to the uint32_t fields of struct window (the value
\* modulo 2^32), kept as its two 16-bit halves: hi * 65536 + lo
ToUint32(n) == [hi |-> (n \div 65536) % 65536, lo |-> n % 65536]

(* --------------------------- command lines ----------------------------- *)
\* The argv words the command lines are built from.
Words ==
    { <<"-", "w", "1", ",", "2">>,      \* -w1,2
      <<"-", "w">>,                     \* -w
      <<"1", ",", "2">>,                \* 1,2
      <<"-", "p">>,                     \* -p
      <<"r", "i", "s">>,                \* ris
      <<"-", "h">>,                     \* -h
      <<"-", "?">>,                     \* -?
      <<"-", "x">>,                     \* -x  (not an option)
      <<"-", "e">>,                     \* -e
      <<"-", "m">>,                     \* -m
      <<"-", "r">>,                     \* -r
      <<"-", "b">>,                     \* -b
      <<"-", "b", "p">>,                \* -bp (two options in one word)
      <<"-", "o">>,                     \* -o
      <<"-", "o", "a", ",", "v">>,      \* -oa,v
      <<"?">>,                          \* ?
      <<"-", "d">>,                     \* -d
      <<"-", "d", "s", "f">>,           \* -dsf
      <<"-", "c">>,                     \* -c
      <<"-", "t">>,                     \* -t
      <<"-", "P">>,                     \* -P
      <<"-", "P", "5">>,                \* -P5
      <<"-", "-">>,                     \* --
      <<"-">> }                         \* -

\* every command line of at most n words
ArgvUpTo(n) == UNION { [1..k -> Words] : k \in 0..n }

\* n copies of word w
Repeat(w, n) == [k \in 1..n |-> w]

\* the words whose repetition fills one of the five bounded arrays
CapWords ==
    { <<"-", "p", "a">>, <<"-", "t", "a">>, <<"-", "c", "a">>,
      <<"-", "w", "1", ",", "2">>, <<"-", "o", "a", ",", "v">> }
CapOf(w) ==
    CASE w[2] = "p" -> PROJECT_CMD_CNT
      [] w[2] = "t" -> TYPE_CMD_CNT
      [] w[2] = "c" -> COLLECTOR_CMD_CNT
      [] w[2] = "w" -> WINDOW_CMD_CNT
      [] w[2] = "o" -> OPTION_CMD_CNT
\* what may follow the repeated word
CapTails ==
    { <<>>, << <<"-", "e">> >>, << <<"-", "w", "1", ",", "2">> >>,
      << <<"-", "x">> >> }
\* command lines that fill an array exactly, or overflow it by one
CapArgv ==
    UNION { { Repeat(w, n) \o t : n \in {CapOf(w), CapOf(w) + 1}, t \in CapTails }
            : w \in CapWords }

\* -w1,2 followed by any of -r, -m, -e (in this order), and one command
\* line that also selects a data interface and sets an option of it
ModeFlags(r, m, e) ==
    (IF r THEN << <<"-", "r">> >> ELSE <<>>)
      \o (IF m THEN << <<"-", "m">> >> ELSE <<>>)
      \o (IF e THEN << <<"-", "e">> >> ELSE <<>>)
StreamArgv ==
    { << <<"-", "w", "1", ",", "2">> >> \o ModeFlags(r, m, e) :
         r \in BOOLEAN, m \in BOOLEAN, e \in BOOLEAN }
      \cup { << <<"-", "d", "s", "f">>, <<"-", "o", "a", ",", "v">>,
                <<"-", "w", "1", ",", "2">>, <<"-", "b">>, <<"-", "e">> >> }

\* The words of the command lines that exercise the binding of the -o
\* entries: every option is in one word with its argument.
BindWords ==
    { <<"r", "i", "s">>,                     \* ris (not an option)
      <<"-", "d", "s", "f">>,                \* -dsf
      <<"-", "d", "c", "s">>,                \* -dcs
      <<"-", "o", "a", ",", "v">>,           \* -oa,v
      <<"-", "o", "a", ",">>,                \* -oa,   (empty value)
      <<"-", "o", "-", "x", ",", "v">>,      \* -o-x,v (name "-x")
      <<"-", "o", "r", "i", "s">>,           \* -oris  (no comma)
      <<"-", "o", "?">>,                     \* -o?
      <<"-", "o", "?", "a", ",", "v">>,      \* -o?a,v
      <<"-", "w", "1", ",", "2">>,           \* -w1,2
      <<"-", "e">> }                         \* -e
\* The words of the command lines that exercise the filters.
FilterWords ==
    { <<"-", "p", "a">>,                     \* -pa
      <<"-", "c", "a">>,                     \* -ca
      <<"-", "t", "a">>,                     \* -ta
      <<"-", "w", "1", ",", "2">>,           \* -w1,2
      <<"-", "w", "3", ",", "4">>,           \* -w3,4
      <<"-", "w", "x", ",", "1">>,           \* -wx,1  (start is not a number)
      <<"-", "w", "-", "1", ",", "2">>,      \* -w-1,2 (start is negative)
      <<"-", "P", "5">>,                     \* -P5
      <<"-", "d", "s", "f">>,                \* -dsf
      <<"-", "o", "a", ",", "v">>,           \* -oa,v
      <<"-", "b">>,                          \* -b
      <<"-", "e">> }                         \* -e
\* every command line of at most n words of the set ws
ArgvOver(ws, n) == UNION { [1..k -> ws] : k \in 0..n }

(* ------------------------------- state --------------------------------- *)
VARIABLES
    argv,       \* argv[1..argc-1]; argv[0] is the program name
    pc,         \* position of main
    optind,     \* getopt: index of the next argv word
    nextchar,   \* getopt: next option character inside argv[optind], 0 if none
    optopt,     \* getopt: the option character of the last error
    cfg,        \* the option variables of main (projects, windows, ...)
    i,          \* loop index of the -o binding loop
    get_next_ret, \* last return value of bgpstream_get_next_record
    rec_status, \* bs_record->status
    engine,     \* what the engine has yielded so far (pulls, records, elements)
    stream,     \* how much the engine can yield (records, elements per record)
    calls,      \* every call made on the engine, in order
    out,        \* lines written to stdout, in order
    err,        \* messages written to stderr, in order
    exit_code   \* exit status, meaningful when pc = "exited"

vars ==
    << argv, stream, pc, optind, nextchar, optopt, cfg, i, get_next_ret,
       rec_status, engine, calls, out, err, exit_code >>

argc == Len(argv) + 1

(* ------------------------------- getopt -------------------------------- *)
\* glibc's NONOPTION_P: the word does not start with '-' or is "-" alone
NONOPTION_P(w) == Len(w) = 0 \/ w[1] # "-" \/ Len(w) = 1

\* glibc permutes by default: the words that are not options are skipped
\* (and moved behind the options, which no later read of argv observes)
RECURSIVE SkipNonOptions(_, _)
SkipNonOptions(av, k) ==
    IF k <= Len(av) /\ NONOPTION_P(av[k]) THEN SkipNonOptions(av, k + 1)
    ELSE k

\* One call getopt(argc, argv, "d:o:p:c:t:w:P:brmeh?") with opterr = 0.
\* oi is optind and nc the position of the next option character in
\* argv[optind] (0 when the scan of a word has not begun).  The result
\* gives the return value (opt, "EOF" for -1), optarg (hasarg is FALSE
\* for NULL), and the new optind, nextchar and optopt.  optopt is set
\* only when getopt itself reports an error.  The value glibc gives optind
\* when it returns -1 (the first permuted word) is not modelled: main
\* never reads optind or argv after the loop.
Getopt(av, oi, nc, oo) ==
    LET at == IF nc = 0 THEN SkipNonOptions(av, oi) ELSE oi
        none == [opt |-> "EOF", hasarg |-> FALSE, optarg |-> <<>>,
                 optind |-> at, nextchar |-> 0, optopt |-> oo]
    IN  IF nc = 0 /\ at > Len(av) THEN none
        ELSE IF nc = 0 /\ av[at] = <<"-", "-">>
        THEN [none EXCEPT !.optind = Len(av) + 1]
        ELSE
          LET w == av[at]
              pos == IF nc = 0 THEN 2 ELSE nc
              c == w[pos]
              last == (pos = Len(w))
              oi1 == IF last THEN at + 1 ELSE at
              nc1 == IF last THEN 0 ELSE pos + 1
          IN  IF c \notin OptChars
              THEN [opt |-> "?", hasarg |-> FALSE, optarg |-> <<>>,
                    optind |-> oi1, nextchar |-> nc1, optopt |-> c]
              ELSE IF c \in ArgOpts
              THEN IF ~last
                   THEN [opt |-> c, hasarg |-> TRUE,
                         optarg |-> SubSeq(w, pos + 1, Len(w)),
                         optind |-> at + 1, nextchar |-> 0, optopt |-> oo]
                   ELSE IF oi1 > Len(av)
                   THEN [opt |-> "?", hasarg |-> FALSE, optarg |-> <<>>,
                         optind |-> oi1, nextchar |-> 0, optopt |-> c]
                   ELSE [opt |-> c, hasarg |-> TRUE, optarg |-> av[oi1],
                         optind |-> oi1 + 1, nextchar |-> 0, optopt |-> oo]
              ELSE [opt |-> c, hasarg |-> FALSE, optarg |-> <<>>,
                    optind |-> oi1, nextchar |-> nc1, optopt |-> oo]

(* ------------------------------- engine -------------------------------- *)
\* the id bgpstream_get_data_interface_id reports for a fresh instance
datasource_id_default == 1
\* bgpstream_get_data_interface_id_by_name: 0 for a name the engine does
\* not know.  The engine of the model knows the interfaces "sf" (id 2)
\* and "cs" (id 3) besides its default.
get_data_interface_id_by_name(name) ==
    IF name = <<"s", "f">> THEN 2
    ELSE IF name = <<"c", "s">> THEN 3
    ELSE 0
\* bgpstream_get_data_interface_option_by_name: NULL (FALSE) for a name the
\* interface does not advertise.  Interface 2 advertises the option "a",
\* the default interface and interface 3 advertise none.
get_data_interface_option_by_name(id, name) ==
    id = 2 /\ name = <<"a">>
\* values of bs_record->status
Statuses == {"valid_record", "filtered_source", "corrupted_record"}
\* return values of bgpstream_get_next_record: > 0 a record, 0 the end of
\* the stream, < 0 an error
RetValues == {-1, 0, 1}
\* return values of bgpstream_start: negative on failure
StartValues == {-1, 0}

(* ------------------------------ helpers -------------------------------- *)
Call(op) == [op |-> op]
\* exit(code) or return code from main, after writing msgs to stderr
Exit(code, msgs) ==
    /\ pc' = "exited"
    /\ exit_code' = code
    /\ err' = err \o msgs
Usage == "usage"
Banner == "bgpreader version"

(* ------------------------------- main ---------------------------------- *)
\* The order of the statements of main after the getopt loop: the binding
\* loop and the -w check (lines 310-362), then the programming of the
\* engine (lines 368-408), then bgpstream_record_create (line 410).
NextPhase_filters_first(p) ==
    CASE p = "parse" -> "apply"
      [] p = "apply" -> "bind"
      [] p = "bind" -> "create_record"
NextPhase(p) ==
    CASE p = "parse" -> "bind"
      [] p = "bind" -> "apply"
      [] p = "apply" -> "create_record"

Init ==
    /\ pc = "create"
    /\ optind = 1
    /\ nextchar = 0
    /\ optopt = "?"
    /\ cfg = [projects |-> <<>>, types |-> <<>>, collectors |-> <<>>,
              windows |-> <<>>, interface_options |-> <<>>,
              rib_period |-> 0, blocking |-> 0, record_output_on |-> 0,
              record_bgpdump_output_on |-> 0, elem_output_on |-> 0,
              datasource_id |-> 0]
    /\ i = 0
    /\ get_next_ret = 0
    /\ rec_status = "valid_record"
    /\ engine = [pulls |-> 0, yielded |-> 0, elems |-> 0]
    /\ calls = <<>>
    /\ out = <<>>
    /\ err = <<>>
    /\ exit_code = 0

\* lines 172-180: bs = bgpstream_create(), default data interface
CreateEngine ==
    /\ pc = "create"
    /\ \E ok \in BOOLEAN :
        /\ calls' = Append(calls, [op |-> "bgpstream_create", ok |-> ok])
        /\ IF ok
           THEN /\ pc' = "parse"
                /\ cfg' = [cfg EXCEPT !.datasource_id = datasource_id_default]
                /\ UNCHANGED << err, exit_code >>
           ELSE /\ Exit(-1, <<"ERROR: Could not create BGPStream instance">>)
                /\ UNCHANGED cfg
    /\ UNCHANGED << argv, stream, optind, nextchar, optopt, i, get_next_ret,
                    rec_status, engine, out >>

\* line 185: the look-ahead that turns "option followed by a flag" into ':'
MissingArgument(g, prevoptind) ==
    /\ g.optind = prevoptind + 2
    /\ (~g.hasarg \/ (Len(g.optarg) > 0 /\ g.optarg[1] = "-"))

\* the cap tests of lines 192, 204, 216, 228, 267
AtCap_one_late(cnt, cap) == cnt = cap + 1
AtCap(cnt, cap) == cnt = cap

\* lines 238-249: split a -w argument at its first comma
ParseWindow(optarg) ==
    LET endp == Strchr(optarg, ",")
    IN  [start |-> ToUint32(Atoi(SubSeq(optarg, 1, endp - 1))),
         end |-> ToUint32(Atoi(SubSeq(optarg, endp + 1, Len(optarg))))]

\* lines 189-307: the switch on the option character
Switch(opt, optarg, oo) ==
    CASE opt = "p" ->
           IF AtCap(Len(cfg.projects), PROJECT_CMD_CNT)
           THEN /\ Exit(-1, <<"ERROR: A maximum of 10 projects", Usage>>)
                /\ UNCHANGED cfg
           ELSE /\ cfg' = [cfg EXCEPT !.projects = Append(@, optarg)]
                /\ UNCHANGED << pc, err, exit_code >>
      [] opt = "c" ->
           IF AtCap(Len(cfg.collectors), COLLECTOR_CMD_CNT)
           THEN /\ Exit(-1, <<"ERROR: A maximum of 100 collectors", Usage>>)
                /\ UNCHANGED cfg
           ELSE /\ cfg' = [cfg EXCEPT !.collectors = Append(@, optarg)]
                /\ UNCHANGED << pc, err, exit_code >>
      [] opt = "t" ->
           IF AtCap(Len(cfg.types), TYPE_CMD_CNT)
           THEN /\ Exit(-1, <<"ERROR: A maximum of 10 types", Usage>>)
                /\ UNCHANGED cfg
           ELSE /\ cfg' = [cfg EXCEPT !.types = Append(@, optarg)]
                /\ UNCHANGED << pc, err, exit_code >>
      [] opt = "w" ->
           IF AtCap(Len(cfg.windows), WINDOW_CMD_CNT)
           THEN /\ Exit(-1, <<"ERROR: A maximum of 1024 windows", Usage>>)
                /\ UNCHANGED cfg
           ELSE IF Strchr(optarg, ",") = 0
           THEN /\ Exit(-1, <<"ERROR: Malformed time window",
                              "ERROR: Expecting start,end", Usage>>)
                /\ UNCHANGED cfg
           ELSE /\ cfg' = [cfg EXCEPT !.windows = Append(@, ParseWindow(optarg))]
                /\ UNCHANGED << pc, err, exit_code >>
      [] opt = "P" ->
           /\ cfg' = [cfg EXCEPT !.rib_period = Atoi(optarg)]
           /\ UNCHANGED << pc, err, exit_code >>
      [] opt = "d" ->
           IF get_data_interface_id_by_name(optarg) = 0
           THEN /\ Exit(-1, <<"ERROR: Invalid data interface name", Usage>>)
                /\ cfg' = [cfg EXCEPT !.datasource_id = 0]
           ELSE /\ cfg' = [cfg EXCEPT !.datasource_id =
                                        get_data_interface_id_by_name(optarg)]
                /\ UNCHANGED << pc, err, exit_code >>
      [] opt = "o" ->
           IF AtCap(Len(cfg.interface_options), OPTION_CMD_CNT)
           THEN /\ Exit(-1, <<"ERROR: A maximum of 1024 interface options",
                              Usage>>)
                /\ UNCHANGED cfg
           ELSE /\ cfg' = [cfg EXCEPT !.interface_options = Append(@, optarg)]
                /\ UNCHANGED << pc, err, exit_code >>
      [] opt = "b" ->
           /\ cfg' = [cfg EXCEPT !.blocking = 1]
           /\ UNCHANGED << pc, err, exit_code >>
      [] opt = "r" ->
           /\ cfg' = [cfg EXCEPT !.record_output_on = 1]
           /\ UNCHANGED << pc, err, exit_code >>
      [] opt = "m" ->
           /\ cfg' = [cfg EXCEPT !.record_bgpdump_output_on = 1]
           /\ UNCHANGED << pc, err, exit_code >>
      [] opt = "e" ->
           /\ cfg' = [cfg EXCEPT !.elem_output_on = 1]
           /\ UNCHANGED << pc, err, exit_code >>
      [] opt = ":" ->
           /\ Exit(-1, <<"ERROR: Missing option argument for -", oo, Usage>>)
           /\ UNCHANGED cfg
      [] opt \in {"?", "v"} ->
           /\ Exit(0, <<Banner, Usage>>)
           /\ UNCHANGED cfg
      [] OTHER ->
           /\ Exit(-1, <<Usage>>)
           /\ UNCHANGED cfg

\* lines 182-308: one iteration of the getopt loop
ParseOpt ==
    /\ pc = "parse"
    /\ LET g == Getopt(argv, optind, nextchar, optopt)
           missing == g.opt # "EOF" /\ MissingArgument(g, optind)
       IN  /\ nextchar' = g.nextchar
           /\ optopt' = g.optopt
           /\ optind' = IF missing THEN g.optind - 1 ELSE g.optind
           /\ IF g.opt = "EOF"
              THEN /\ pc' = NextPhase("parse")
                   /\ i' = 0
                   /\ UNCHANGED << cfg, err, exit_code >>
              ELSE /\ Switch(IF missing THEN ":" ELSE g.opt, g.optarg, g.optopt)
                   /\ UNCHANGED i
    /\ UNCHANGED << argv, stream, get_next_ret, rec_status, engine, calls, out >>

\* line 312: the test for the '-o ?' sentinel reads the first character
IsSentinel(entry) == Len(entry) > 0 /\ entry[1] = "?"

\* lines 310-347: one iteration of the loop that binds the -o entries
BindOption ==
    /\ pc = "bind"
    /\ i < Len(cfg.interface_options)
    /\ LET entry == cfg.interface_options[i + 1]
           endp == Strchr(entry, ",")
           name == SubSeq(entry, 1, endp - 1)
           value == SubSeq(entry, endp + 1, Len(entry))
           found == get_data_interface_option_by_name(cfg.datasource_id, name)
           lookup == [op |-> "bgpstream_get_data_interface_option_by_name",
                      id |-> cfg.datasource_id, name |-> name, found |-> found]
       IN  IF IsSentinel(entry)
           THEN /\ Exit(0, <<"Data interface options for", Usage>>)
                /\ calls' = Append(calls,
                      [op |-> "bgpstream_get_data_interface_options",
                       id |-> cfg.datasource_id])
                /\ UNCHANGED i
           ELSE IF endp = 0
           THEN /\ Exit(-1, <<"ERROR: Malformed data interface option",
                              "ERROR: Expecting <option-name>,<option-value>",
                              Usage>>)
                /\ UNCHANGED << calls, i >>
           ELSE IF ~found
           THEN /\ Exit(-1, <<"ERROR: Invalid option", Usage>>)
                /\ calls' = Append(calls, lookup)
                /\ UNCHANGED i
           ELSE /\ calls' = calls \o
                      << lookup,
                         [op |-> "bgpstream_set_data_interface_option",
                          id |-> cfg.datasource_id, name |-> name,
                          value |-> value] >>
                /\ i' = i + 1
                /\ UNCHANGED << pc, err, exit_code >>
    /\ UNCHANGED << argv, stream, optind, nextchar, optopt, cfg, get_next_ret,
                    rec_status, engine, out >>

\* lines 358-360: no output mode was selected on the command line
DefaultsToRecord_unless_elem(c) ==
    c.record_output_on = 0 /\ c.elem_output_on = 0
DefaultsToRecord(c) ==
    /\ c.record_output_on = 0
    /\ c.elem_output_on = 0
    /\ c.record_bgpdump_output_on = 0

\* lines 348-362: after the binding loop, the -w requirement and the
\* default output mode
CheckWindows ==
    /\ pc = "bind"
    /\ i >= Len(cfg.interface_options)
    /\ IF Len(cfg.windows) = 0
       THEN /\ Exit(-1, <<"ERROR: At least one time window must be specified using -w",
                          Usage>>)
            /\ cfg' = [cfg EXCEPT !.interface_options = <<>>]
       ELSE /\ pc' = NextPhase("bind")
            /\ cfg' = [cfg EXCEPT
                         !.interface_options = <<>>,
                         !.record_output_on =
                            IF DefaultsToRecord(cfg) THEN 1 ELSE @]
            /\ UNCHANGED << err, exit_code >>
    /\ UNCHANGED << argv, stream, optind, nextchar, optopt, i, get_next_ret,
                    rec_status, engine, calls, out >>

\* the calls of one of the loops of lines 368-393
FilterCalls(kind, values) ==
    [k \in 1..Len(values) |->
        [op |-> "bgpstream_add_filter", type |-> kind, value |-> values[k]]]
IntervalCalls(ws) ==
    [k \in 1..Len(ws) |->
        [op |-> "bgpstream_add_interval_filter",
         start |-> ws[k].start, end |-> ws[k].end]]

\* lines 395-408: the rib period, the data interface and the blocking mode
RibPeriodCalls(c) ==
    IF c.rib_period > 0
    THEN << [op |-> "bgpstream_add_rib_period_filter",
             period |-> c.rib_period] >>
    ELSE <<>>
InterfaceCalls(c) ==
    << [op |-> "bgpstream_set_data_interface", id |-> c.datasource_id] >>
BlockingCalls(c) ==
    IF c.blocking # 0 THEN << Call("bgpstream_set_blocking") >> ELSE <<>>

\* lines 368-408: the calls that program the engine, in the order of the
\* statements
FilterProgram_windows_first(c) ==
    IntervalCalls(c.windows)
      \o FilterCalls("BGPSTREAM_FILTER_TYPE_PROJECT", c.projects)
      \o FilterCalls("BGPSTREAM_FILTER_TYPE_COLLECTOR", c.collectors)
      \o FilterCalls("BGPSTREAM_FILTER_TYPE_RECORD_TYPE", c.types)
      \o RibPeriodCalls(c)
      \o InterfaceCalls(c)
      \o BlockingCalls(c)
FilterProgram(c) ==
    FilterCalls("BGPSTREAM_FILTER_TYPE_PROJECT", c.projects)
      \o FilterCalls("BGPSTREAM_FILTER_TYPE_COLLECTOR", c.collectors)
      \o FilterCalls("BGPSTREAM_FILTER_TYPE_RECORD_TYPE", c.types)
      \o IntervalCalls(c.windows)
      \o RibPeriodCalls(c)
      \o InterfaceCalls(c)
      \o BlockingCalls(c)

\* lines 368-408: program the engine
ApplyFilters ==
    /\ pc = "apply"
    /\ calls' = calls \o FilterProgram(cfg)
    /\ pc' = NextPhase("apply")
    /\ UNCHANGED << argv, stream, optind, nextchar, optopt, cfg, i, get_next_ret,
                    rec_status, engine, out, err, exit_code >>

\* lines 410-417: bs_record = bgpstream_record_create()
CreateRecord ==
    /\ pc = "create_record"
    /\ \E ok \in BOOLEAN :
        IF ok
        THEN /\ calls' = Append(calls,
                   [op |-> "bgpstream_record_create", ok |-> TRUE])
             /\ pc' = "start"
             /\ UNCHANGED << err, exit_code >>
        ELSE /\ calls' = calls \o
                   << [op |-> "bgpstream_record_create", ok |-> FALSE],
                      Call("bgpstream_destroy") >>
             /\ Exit(-1, <<"ERROR: Could not create BGPStream record">>)
    /\ UNCHANGED << argv, stream, optind, nextchar, optopt, cfg, i, get_next_ret,
                    rec_status, engine, out >>

\* lines 419-423: bgpstream_start(bs)
Start ==
    /\ pc = "start"
    /\ \E ret \in StartValues :
        /\ calls' = Append(calls, [op |-> "bgpstream_start", ret |-> ret])
        /\ IF ret < 0
           THEN Exit(-1, <<"ERROR: Could not init BGPStream">>)
           ELSE /\ pc' = "pull"
                /\ UNCHANGED << err, exit_code >>
    /\ UNCHANGED << argv, stream, optind, nextchar, optopt, cfg, i, get_next_ret,
                    rec_status, engine, out >>

\* line 431: the record header is printed
PrintsHeader(ret) == ret # 0 /\ cfg.record_output_on # 0
\* line 435: the record is handed to the MRT emitter and the element loop
DispatchesRecord(ret, status) == ret # 0 /\ status = "valid_record"
\* line 454: the condition of the do/while loop
LoopsAgain_on_zero(ret) == ret >= 0
LoopsAgain(ret) == ret > 0
\* where main goes when the body of the do/while loop is done
AfterBody(ret) == IF LoopsAgain(ret) THEN "pull" ELSE "teardown"

\* lines 428-440 (and 454 when no element loop is entered): pull one
\* record, print its header, hand it to the MRT emitter.  A stream of n
\* records answers n + 1 pulls at most (the last one with ret <= 0): the
\* guard on engine.pulls caps the number of calls.
GetNextRecord ==
    /\ pc = "pull"
    /\ engine.pulls <= stream.records
    /\ \E ret \in RetValues, status \in Statuses :
        /\ ret > 0 => engine.yielded < stream.records
        /\ LET n == engine.pulls + 1
               mrt == DispatchesRecord(ret, status)
                        /\ cfg.record_bgpdump_output_on # 0
           IN  /\ engine' = [pulls |-> n,
                             yielded |-> engine.yielded + (IF ret > 0 THEN 1 ELSE 0),
                             elems |-> 0]
               /\ get_next_ret' = ret
               /\ rec_status' = status
               /\ calls' = calls
                     \o << [op |-> "bgpstream_get_next_record", pull |-> n,
                            ret |-> ret, status |-> status] >>
                     \o (IF mrt
                         THEN << [op |-> "bgpstream_record_print_mrt_data",
                                  pull |-> n] >>
                         ELSE <<>>)
               /\ out' = out
                     \o (IF PrintsHeader(ret)
                         THEN << [line |-> "header", pull |-> n, elem |-> 0] >>
                         ELSE <<>>)
                     \o (IF mrt
                         THEN << [line |-> "mrt", pull |-> n, elem |-> 0] >>
                         ELSE <<>>)
               /\ pc' = IF DispatchesRecord(ret, status) /\ cfg.elem_output_on # 0
                        THEN "elems"
                        ELSE AfterBody(ret)
    /\ UNCHANGED << argv, stream, optind, nextchar, optopt, cfg, i, err, exit_code >>

\* print_elem (lines 536-549): its return value, given whether
\* bgpstream_elem_snprintf succeeded
print_elem_ignores_failure(ok) == 0
print_elem(ok) == IF ok THEN 0 ELSE -1

\* lines 443-450 and print_elem (536-549): fetch one element and print it
NextElem ==
    /\ pc = "elems"
    /\ \E more \in BOOLEAN, ok \in BOOLEAN :
        /\ more => engine.elems < stream.elems
        /\ ~more => ok
        /\ LET k == engine.elems + 1
               fetch == [op |-> "bgpstream_record_get_next_elem",
                         pull |-> engine.pulls, elem |-> IF more THEN k ELSE 0]
           IN  IF ~more
               THEN /\ calls' = Append(calls, fetch)
                    /\ pc' = AfterBody(get_next_ret)
                    /\ UNCHANGED << engine, out, err >>
               ELSE /\ calls' = calls \o
                          << fetch,
                             [op |-> "bgpstream_elem_snprintf",
                              pull |-> engine.pulls, elem |-> k, ok |-> ok] >>
                    /\ engine' = [engine EXCEPT !.elems = k]
                    /\ out' = IF ok
                              THEN Append(out, [line |-> "elem",
                                                pull |-> engine.pulls,
                                                elem |-> k])
                              ELSE out
                    /\ err' = IF ok THEN err
                              ELSE err \o <<"Failed to construct elem string",
                                            "Elem string:">>
                    /\ pc' = IF print_elem(ok) # 0 THEN "err" ELSE pc
    /\ UNCHANGED << argv, stream, optind, nextchar, optopt, cfg, i, get_next_ret,
                    rec_status, exit_code >>

\* the three calls of lines 457-463 and of lines 468-470
TeardownCalls_engine_first ==
    << Call("bgpstream_stop"), Call("bgpstream_destroy"),
       Call("bgpstream_record_destroy") >>
TeardownCalls ==
    << Call("bgpstream_record_destroy"), Call("bgpstream_stop"),
       Call("bgpstream_destroy") >>

\* lines 456-465: the end of the loop
Teardown ==
    /\ pc = "teardown"
    /\ calls' = calls \o TeardownCalls
    /\ Exit(0, <<>>)
    /\ UNCHANGED << argv, stream, optind, nextchar, optopt, cfg, i, get_next_ret,
                    rec_status, engine, out >>

\* lines 467-471: the err label
ErrTeardown ==
    /\ pc = "err"
    /\ calls' = calls \o TeardownCalls
    /\ Exit(-1, <<>>)
    /\ UNCHANGED << argv, stream, optind, nextchar, optopt, cfg, i, get_next_ret,
                    rec_status, engine, out >>

Next ==
    \/ CreateEngine
    \/ ParseOpt
    \/ BindOption
    \/ CheckWindows
    \/ ApplyFilters
    \/ CreateRecord
    \/ Start
    \/ GetNextRecord
    \/ NextElem
    \/ Teardown
    \/ ErrTeardown

\* an engine that yields at most one record of at most one element
ShortStream == [records |-> 1, elems |-> 1]
\* an engine that yields up to MaxRecords records of up to MaxElems elements
LongStream == [records |-> MaxRecords, elems |-> MaxElems]

\* Spec: every command line of at most MaxArgs words, on a short stream
InitArgv == Init /\ argv \in ArgvUpTo(MaxArgs) /\ stream = ShortStream
Spec == InitArgv /\ [][Next]_vars

\* SpecCaps: the command lines that fill one of the arrays of main
InitCaps == Init /\ argv \in CapArgv /\ stream = ShortStream
SpecCaps == InitCaps /\ [][Next]_vars

\* SpecStream: the valid command lines with every combination of the
\* output modes, on a long stream
InitStream == Init /\ argv \in StreamArgv /\ stream = LongStream
SpecStream == InitStream /\ [][Next]_vars

\* SpecBind: the command lines of at most MaxBindArgs words that select
\* data interfaces and give -o entries
InitBind == Init /\ argv \in ArgvOver(BindWords, MaxBindArgs) /\ stream = ShortStream
SpecBind == InitBind /\ [][Next]_vars

\* SpecFilter: the command lines of at most MaxFilterArgs words that give
\* filters, windows, a rib period, a data interface and the blocking mode
InitFilter == Init /\ argv \in ArgvOver(FilterWords, MaxFilterArgs) /\ stream = ShortStream
SpecFilter == InitFilter /\ [][Next]_vars

\* FairStream: SpecStream with the progress of main.  main is one thread
\* and every call it makes on the engine returns, so main always takes its
\* next step.
FairStream == InitStream /\ [][Next]_vars /\ WF_vars(Next)

(* ======================= properties of the program ===================== *)
Exited == pc = "exited"
CallIdx(op) == { k \in DOMAIN calls : calls[k].op = op }
Count(op) == Cardinality(CallIdx(op))
Said(msg) == \E k \in DOMAIN err : err[k] = msg
IsPrefix(s, t) == Len(s) <= Len(t) /\ SubSeq(t, 1, Len(s)) = s
CallsAfter(k) == SubSeq(calls, k + 1, Len(calls))
\* the pulls that returned ret <= 0
PullsWithoutRecord ==
    { calls[k].pull : k \in { j \in CallIdx("bgpstream_get_next_record") :
                                calls[j].ret <= 0 } }
\* the calls that emit or fetch something of the record of a pull
DispatchCalls ==
    CallIdx("bgpstream_record_print_mrt_data")
      \cup CallIdx("bgpstream_record_get_next_elem")
      \cup CallIdx("bgpstream_elem_snprintf")

\* C1: a record is dispatched (header printed, MRT emitter invoked, elements
\* fetched or printed) only for a call of get_next_record that returned a
\* value > 0; for a return of 0 or of a negative value nothing is printed
\* and no call is made for the record.
C1_DispatchOnlyForPositiveReturn ==
    \A n \in PullsWithoutRecord :
        /\ \A k \in DOMAIN out : out[k].pull # n
        /\ \A k \in DispatchCalls : calls[k].pull # n

\* the run pulled records to the end of the stream and tore down
CleanCompletion ==
    /\ Count("bgpstream_get_next_record") > 0
    /\ get_next_ret = 0
    /\ IsPrefix(TeardownCalls, CallsAfter(Len(calls) - 3))
\* the run ended on the help text or on the '-o ?' listing with no error
\* message
HelpShown ==
    /\ Said(Usage)
    /\ Said(Banner) \/ Said("Data interface options for")
    /\ \A k \in DOMAIN err : err[k] \in {Usage, Banner, "Data interface options for"}
\* a fatal error happened: an error message was written, or the last pull
\* returned a negative value
FatalError ==
    \/ \E k \in DOMAIN err : err[k] \notin {Usage, Banner, "Data interface options for"}
    \/ (Count("bgpstream_get_next_record") > 0 /\ get_next_ret < 0)

\* C2: the exit status is 0 only when the stream completed cleanly
\* (get_next_record returned 0 and teardown ran) or help or the option
\* listing was shown; every fatal error ends with exit status -1.
C2_ExitStatus ==
    Exited =>
        /\ exit_code = 0 => (CleanCompletion \/ HelpShown)
        /\ FatalError => exit_code = -1

\* both handles exist: bgpstream_create and bgpstream_record_create succeeded
BothHandlesCreated ==
    \E k \in CallIdx("bgpstream_record_create") : calls[k].ok

\* C3: a run that got past validation (has at least one -w) and created
\* its handles calls bgpstream_start exactly once, reaches teardown exactly
\* once and destroys the engine handle and the record handle exactly once
\* each before the process ends.
C3_EveryHandleDestroyedOnce ==
    (Exited /\ BothHandlesCreated) =>
        /\ Count("bgpstream_start") = 1
        /\ Count("bgpstream_stop") = 1
        /\ Count("bgpstream_record_destroy") = 1
        /\ Count("bgpstream_destroy") = 1

StartFailed ==
    \E k \in CallIdx("bgpstream_start") : calls[k].ret < 0

\* C4: when bgpstream_start returns a negative value, main writes a
\* diagnostic, destroys the record handle and the engine handle, never
\* calls get_next_record, and exits -1.
C4_StartFailureTearsDown ==
    (Exited /\ StartFailed) =>
        /\ Said("ERROR: Could not init BGPStream")
        /\ Count("bgpstream_record_destroy") = 1
        /\ Count("bgpstream_destroy") = 1
        /\ Count("bgpstream_get_next_record") = 0
        /\ exit_code = -1

\* the calls of bgpstream_elem_snprintf that returned NULL
FailedSnprintf ==
    { k \in CallIdx("bgpstream_elem_snprintf") : ~calls[k].ok }

\* C5: when bgpstream_elem_snprintf returns NULL the failure is fatal: the
\* only calls that follow are record_destroy, stop and destroy, in this
\* order (no element is fetched and get_next_record is not called again),
\* the failed element and nothing after it is printed, and the process
\* exits -1 once the three calls are made.
C5_SerializationFailureIsFatal ==
    \A k \in FailedSnprintf :
        /\ pc \in {"err", "exited"}
        /\ IsPrefix(CallsAfter(k), TeardownCalls)
        /\ \A j \in DOMAIN out :
              \/ out[j].pull < calls[k].pull
              \/ (out[j].pull = calls[k].pull /\ out[j].elem < calls[k].elem)
        /\ Exited => (exit_code = -1 /\ CallsAfter(k) = TeardownCalls)
\* a run that ended after a serialization failure
C5_Witness == Exited /\ FailedSnprintf # {}

\* the output the records yielded by the engine call for, computed from the
\* engine's answers in `calls` from index k on: for each pull that yielded a
\* record (ret > 0) its header if the record mode is active, its MRT dump
\* if it is a valid record and the mrt mode is active, and a line for each
\* of its elements that serialized if it is a valid record and the elem
\* mode is active
YieldedValid(n) ==
    \E k \in CallIdx("bgpstream_get_next_record") :
        /\ calls[k].pull = n
        /\ calls[k].ret > 0
        /\ calls[k].status = "valid_record"
RECURSIVE ExpectedOutput(_)
ExpectedOutput(k) ==
    IF k > Len(calls) THEN <<>>
    ELSE LET c == calls[k]
             lines ==
               IF c.op = "bgpstream_get_next_record" /\ c.ret > 0
               THEN (IF cfg.record_output_on # 0
                     THEN << [line |-> "header", pull |-> c.pull, elem |-> 0] >>
                     ELSE <<>>)
                    \o (IF c.status = "valid_record"
                           /\ cfg.record_bgpdump_output_on # 0
                        THEN << [line |-> "mrt", pull |-> c.pull, elem |-> 0] >>
                        ELSE <<>>)
               ELSE IF c.op = "bgpstream_elem_snprintf" /\ c.ok
                       /\ YieldedValid(c.pull) /\ cfg.elem_output_on # 0
               THEN << [line |-> "elem", pull |-> c.pull, elem |-> c.elem] >>
               ELSE <<>>
         IN  lines \o ExpectedOutput(k + 1)

\* C6: the output is the concatenation, in the order the engine yields the
\* records, of one block per yielded record: header (record mode), MRT dump
\* (valid record, mrt mode), one line per element in iteration order (valid
\* record, elem mode); nothing else is printed.
C6_OutputIsBlocksOfYieldedRecords == out = ExpectedOutput(1)

\* some word of the command line av holds the character c
Mentions(av, c) ==
    \E k \in DOMAIN av : \E j \in DOMAIN av[k] : av[k][j] = c
FilterOps ==
    {"bgpstream_add_filter", "bgpstream_add_interval_filter",
     "bgpstream_add_rib_period_filter", "bgpstream_set_data_interface",
     "bgpstream_set_blocking"}

\* C7: bgpstream_start is never called while the list of windows is empty;
\* a command line with no -w that asks neither for help (-h, -?) nor for
\* the '-o ?' listing ends with exit status -1, with no filter pushed and
\* the engine not started.
C7_NoStartWithoutWindow ==
    /\ Count("bgpstream_start") > 0 => Len(cfg.windows) > 0
    /\ (Exited /\ ~Mentions(argv, "w") /\ ~Mentions(argv, "h")
          /\ ~Mentions(argv, "?")) =>
            /\ exit_code = -1
            /\ \A k \in DOMAIN calls : calls[k].op \notin FilterOps
            /\ Count("bgpstream_start") = 0

\* the number of words of av that give the option c
CountOption(av, c) ==
    Cardinality({ k \in DOMAIN av :
                    Len(av[k]) >= 2 /\ av[k][1] = "-" /\ av[k][2] = c })
EngineCreated == Len(calls) > 0 /\ calls[1].ok
\* the run is past the option loop and its command line gives option c
\* more often than cap
Overflows(c, cap) ==
    /\ pc \notin {"create", "parse"}
    /\ EngineCreated
    /\ CountOption(argv, c) > cap
\* the run was aborted with msg, exit status -1, and n stored entries
AbortedAt(msg, n, cap) == Exited /\ exit_code = -1 /\ Said(msg) /\ n = cap

\* C8: the five counters never exceed their caps (10 projects, 10 types,
\* 100 collectors, 1024 windows, 1024 interface options), and the
\* occurrence that would exceed a cap by one aborts the run with exit
\* status -1 and without storing the entry.  (Command lines of SpecCaps:
\* every occurrence up to the overflowing one is parsed.)
C8_CountersWithinCaps ==
    /\ Len(cfg.projects) <= PROJECT_CMD_CNT
    /\ Len(cfg.types) <= TYPE_CMD_CNT
    /\ Len(cfg.collectors) <= COLLECTOR_CMD_CNT
    /\ Len(cfg.windows) <= WINDOW_CMD_CNT
    /\ Len(cfg.interface_options) <= OPTION_CMD_CNT
    /\ Overflows("p", PROJECT_CMD_CNT) =>
          AbortedAt("ERROR: A maximum of 10 projects",
                    Len(cfg.projects), PROJECT_CMD_CNT)
    /\ Overflows("t", TYPE_CMD_CNT) =>
          AbortedAt("ERROR: A maximum of 10 types",
                    Len(cfg.types), TYPE_CMD_CNT)
    /\ Overflows("c", COLLECTOR_CMD_CNT) =>
          AbortedAt("ERROR: A maximum of 100 collectors",
                    Len(cfg.collectors), COLLECTOR_CMD_CNT)
    /\ Overflows("w", WINDOW_CMD_CNT) =>
          AbortedAt("ERROR: A maximum of 1024 windows",
                    Len(cfg.windows), WINDOW_CMD_CNT)
    /\ Overflows("o", OPTION_CMD_CNT) =>
          AbortedAt("ERROR: A maximum of 1024 interface options",
                    Len(cfg.interface_options), OPTION_CMD_CNT)
\* the 1025th -w was refused with 1024 windows stored
C8_Witness ==
    /\ Exited
    /\ Said("ERROR: A maximum of 1024 windows")
    /\ Len(cfg.windows) = WINDOW_CMD_CNT
    /\ CountOption(argv, "w") = WINDOW_CMD_CNT + 1

\* the next call of getopt hands an option the following argv word as its
\* argument, and that word begins with '-'
NextTakesFlagAsArgument ==
    /\ pc = "parse"
    /\ LET g == Getopt(argv, optind, nextchar, optopt)
       IN  /\ g.hasarg
           /\ argv[g.optind - 1] = g.optarg
           /\ Len(g.optarg) > 0
           /\ g.optarg[1] = "-"

\* C9: when an argument-taking option is followed in argv by a separate
\* word that begins with '-', the parser reports a missing argument and
\* exits -1, and the word is not consumed as the option's argument.
C9_FlagIsNotConsumedAsArgument ==
    [][NextTakesFlagAsArgument =>
          /\ pc' = "exited"
          /\ exit_code' = -1
          /\ \E k \in DOMAIN err' :
                err'[k] = "ERROR: Missing option argument for -"
          /\ cfg' = cfg]_vars

\* C10: -h, like -?, prints the version banner and the usage text and ends
\* the process with exit status 0.
C10_HelpFlagExitsZero ==
    (Exited /\ EngineCreated /\ Len(argv) > 0
       /\ argv[1] \in { <<"-", "h">>, <<"-", "?">> }) =>
        /\ exit_code = 0
        /\ err = <<Banner, Usage>>
\* C11: a flag that is not in the option string makes the parser print the
\* version banner and the usage text and end the process with exit
\* status -1.
C11_UnknownFlagExitsMinusOne ==
    (Exited /\ EngineCreated /\ Len(argv) > 0 /\ argv[1] = <<"-", "x">>) =>
        /\ Said(Banner)
        /\ Said(Usage)
        /\ exit_code = -1
\* the binder printed the list of the options of the data interface
ListingShown == Said("Data interface options for")
\* the run ended inside the loop that binds the -o entries, at the entry
\* cfg.interface_options[i + 1]
StoppedInBinder ==
    /\ Exited
    /\ \/ ListingShown
       \/ Said("ERROR: Malformed data interface option")
       \/ Said("ERROR: Invalid option")
LookupOp == "bgpstream_get_data_interface_option_by_name"
SetterOp == "bgpstream_set_data_interface_option"

\* C12: the binder takes an -o entry for the sentinel exactly when the
\* entry equals "?": it then prints the options of the data interface and
\* the usage text and exits with status 0, and no later -o entry is looked
\* up or applied; an entry that is not "?" is never taken for the sentinel.
C12_SentinelIsQuestionMark ==
    /\ ListingShown =>
          /\ cfg.interface_options[i + 1] = <<"?">>
          /\ Exited /\ exit_code = 0 /\ Said(Usage)
          /\ calls[Len(calls)].op = "bgpstream_get_data_interface_options"
          /\ Count(LookupOp) = i
    /\ (StoppedInBinder /\ cfg.interface_options[i + 1] = <<"?">>) => ListingShown
\* the words of a command line that are the option c with its argument
\* attached, and the arguments of these words in command-line order
IsDWord(w) == Len(w) > 2 /\ w[1] = "-" /\ w[2] = "d"
IsOWord(w) == Len(w) > 2 /\ w[1] = "-" /\ w[2] = "o"
ArgsOf(ws) == [k \in 1..Len(ws) |-> SubSeq(ws[k], 3, Len(ws[k]))]
DArgs(av) == ArgsOf(SelectSeq(av, IsDWord))
OArgs(av) == ArgsOf(SelectSeq(av, IsOWord))
\* the data interface the command line selects: that of its last -d
FinalId(av) ==
    IF DArgs(av) = <<>> THEN datasource_id_default
    ELSE get_data_interface_id_by_name(DArgs(av)[Len(DArgs(av))])
\* the lookups and setter calls the binder owes the entries es[k..] under the
\* interface id: one lookup per entry, then the setter, up to the first
\* entry that fails or is taken for the sentinel
RECURSIVE ExpectedBind(_, _, _)
ExpectedBind(id, es, k) ==
    IF k > Len(es) THEN <<>>
    ELSE LET endp == Strchr(es[k], ",")
             name == SubSeq(es[k], 1, endp - 1)
             found == get_data_interface_option_by_name(id, name)
         IN  IF IsSentinel(es[k]) \/ endp = 0 THEN <<>>
             ELSE IF ~found
             THEN << [op |-> LookupOp, id |-> id, name |-> name, found |-> FALSE] >>
             ELSE << [op |-> LookupOp, id |-> id, name |-> name, found |-> TRUE],
                     [op |-> SetterOp, id |-> id, name |-> name,
                      value |-> SubSeq(es[k], endp + 1, Len(es[k]))] >>
                    \o ExpectedBind(id, es, k + 1)
IsBindCall(c) == c.op \in {LookupOp, SetterOp}
\* the lookups and setter calls made so far
BindCalls == SelectSeq(calls, IsBindCall)
\* the getopt loop and the binding loop are over
PastBinder == EngineCreated /\ pc \notin {"create", "parse", "bind"}

\* C13: the lookups and setter calls of a run, and with them its outcome,
\* depend on the -d flags and on the -o entries of the command line each in
\* their own order only, not on where the -d flags stand among the -o
\* flags: they are those of the -o entries, in order, resolved against the
\* interface of the last -d.
C13_BindingIgnoresPlacementOfD ==
    (PastBinder /\ DArgs(argv) # <<>> /\ OArgs(argv) # <<>>) =>
        BindCalls = ExpectedBind(FinalId(argv), OArgs(argv), 1)
\* every lookup and setter call made names the interface id that main holds
\* after the whole command line was parsed
LookupsUseFinalId ==
    \A k \in DOMAIN BindCalls : BindCalls[k].id = cfg.datasource_id
\* the binding loop is running or the run ended inside it: the entries are
\* still in cfg.interface_options
InBinder == (EngineCreated /\ pc = "bind") \/ StoppedInBinder
IsSetterCall(c) == c.op = SetterOp
\* the setter calls made so far
SetterCalls == SelectSeq(calls, IsSetterCall)
\* the setter call the binder owes a well-formed entry: the option named
\* by the text before the first comma, the value the text after it
SetterFor(entry) ==
    [op |-> SetterOp, id |-> cfg.datasource_id,
     name |-> SubSeq(entry, 1, Strchr(entry, ",") - 1),
     value |-> SubSeq(entry, Strchr(entry, ",") + 1, Len(entry))]
\* the entry has a comma and names an option of the selected interface
Bindable(entry) ==
    /\ Strchr(entry, ",") # 0
    /\ get_data_interface_option_by_name(cfg.datasource_id,
          SubSeq(entry, 1, Strchr(entry, ",") - 1))

\* C14: the binder goes through the -o entries in input order, each at most
\* once.  An entry other than the sentinel "?" that has no comma ends the
\* run with status -1 and no setter call for it, one whose name the
\* interface does not know ends the run with status -1, every other one
\* gets exactly one setter call with the text after its first comma as the
\* value.  The setter calls are those of the entries before the first
\* failing or sentinel entry, in input order.
C14_BinderBindsInOrder ==
    InBinder =>
        LET e == cfg.interface_options
            n == Len(SetterCalls)
        IN  /\ n <= Len(e)
            /\ SetterCalls = [j \in 1..n |-> SetterFor(e[j])]
            /\ \A j \in 1..n : e[j] # <<"?">> /\ Bindable(e[j])
            /\ Count(LookupOp) \in {n, n + 1}
            /\ StoppedInBinder =>
                  IF e[n + 1] = <<"?">>
                  THEN exit_code = 0 /\ Count(LookupOp) = n
                  ELSE /\ exit_code = -1
                       /\ ~Bindable(e[n + 1])
                       /\ Strchr(e[n + 1], ",") = 0 => Count(LookupOp) = n
IsWWord(w) == Len(w) > 2 /\ w[1] = "-" /\ w[2] = "w"
\* the arguments of the -w words of a command line, in order
WArgs(av) == ArgsOf(SelectSeq(av, IsWWord))
\* s is the decimal notation of an unsigned 32-bit number (of at most nine
\* digits: the command lines of the model have no longer one)
IsUint32Decimal(s) ==
    Len(s) \in 1..9 /\ \A k \in DOMAIN s : IsDigit(s[k])
\* a -w argument of the form <start>,<end> with two unsigned decimals
WellFormedWindow(arg) ==
    /\ Strchr(arg, ",") # 0
    /\ IsUint32Decimal(SubSeq(arg, 1, Strchr(arg, ",") - 1))
    /\ IsUint32Decimal(SubSeq(arg, Strchr(arg, ",") + 1, Len(arg)))
\* the window a well-formed argument denotes
WindowOf(arg) ==
    [start |-> ToUint32(AtoiDigits(SubSeq(arg, 1, Strchr(arg, ",") - 1), 1, 0)),
     end |-> ToUint32(AtoiDigits(SubSeq(arg, Strchr(arg, ",") + 1, Len(arg)), 1, 0))]
IntervalOp == "bgpstream_add_interval_filter"

\* C15: a -w argument is split at its first comma and both sides are
\* unsigned 32-bit decimals; an argument with no comma or with a side that
\* is empty, not a number or out of range ends the run with a usage error
\* and status -1, so that every window passed to add_interval_filter was
\* given as two valid decimals.
C15_OnlyValidWindowsReachEngine ==
    /\ (EngineCreated /\ pc \notin {"create", "parse"}
          /\ \E k \in DOMAIN WArgs(argv) : ~WellFormedWindow(WArgs(argv)[k]))
        => (Exited /\ exit_code = -1 /\ Count(IntervalOp) = 0)
    /\ \A j \in CallIdx(IntervalOp) :
          \E k \in DOMAIN WArgs(argv) :
              /\ WellFormedWindow(WArgs(argv)[k])
              /\ WindowOf(WArgs(argv)[k]) = [start |-> calls[j].start,
                                            end |-> calls[j].end]
\* the command line gives the option c
Given(c) == CountOption(argv, c) > 0
\* -r was given, or none of -r, -m and -e was
RecordModeWanted == Given("r") \/ ~(Given("r") \/ Given("m") \/ Given("e"))
\* validation is over: the engine is being programmed or has been
Streaming ==
    \/ pc \in {"apply", "create_record", "start", "pull", "elems",
               "teardown", "err"}
    \/ (Exited /\ Count("bgpstream_set_data_interface") > 0)
\* the pulls for which a record header was printed
HeaderPulls == { out[k].pull : k \in { j \in DOMAIN out : out[j].line = "header" } }
\* the pulls that returned a record
RecordPulls ==
    { calls[k].pull : k \in { j \in CallIdx("bgpstream_get_next_record") :
                                calls[j].ret > 0 } }

\* C16: in the streaming phase the per-record mode is active (a header line
\* is printed for every record pulled) if and only if -r was given or none
\* of -r, -m, -e was given; with -e or -m and without -r no header line is
\* ever printed.
C16_RecordModeIsDefaultOrExplicit ==
    /\ Streaming => ((cfg.record_output_on # 0) <=> RecordModeWanted)
    /\ RecordModeWanted => RecordPulls \subseteq HeaderPulls
    /\ ~RecordModeWanted => HeaderPulls = {}
\* a run with -m and without -r and -e that emitted a record as MRT
C16_Witness ==
    /\ Exited
    /\ Given("m") /\ ~Given("r") /\ ~Given("e")
    /\ \E k \in DOMAIN out : out[k].line = "mrt"
    /\ HeaderPulls = {}
PullOp == "bgpstream_get_next_record"
\* the calls that use the record handle, and the call that destroys it
RecordOps ==
    {PullOp, "bgpstream_record_print_mrt_data",
     "bgpstream_record_get_next_elem", "bgpstream_elem_snprintf"}
\* the do/while loop of main has been left (by its condition or by goto err)
LoopEnded ==
    \/ pc \in {"teardown", "err"}
    \/ (Exited /\ Count(PullOp) > 0)
\* the calls made up to the end of the loop
LoopCalls ==
    IF Exited THEN SubSeq(calls, 1, Len(calls) - 3) ELSE calls
\* the order in which the handles are to be released
TeardownOrder ==
    << "bgpstream_record_destroy", "bgpstream_stop", "bgpstream_destroy" >>
\* the last three calls are record_destroy, stop, destroy
TornDown ==
    /\ Exited
    /\ Len(calls) >= 3
    /\ \A j \in 1..3 : calls[Len(calls) - 3 + j].op = TeardownOrder[j]
\* what ended the loop: a return of 0 or of a negative value, or an element
\* that could not be serialized
LoopEndCause ==
    LET last == LoopCalls[Len(LoopCalls)]
    IN  \/ get_next_ret <= 0
        \/ (last.op = "bgpstream_elem_snprintf" /\ ~last.ok)
\* once the loop has ended: nothing of the teardown was called inside the
\* loop, and the run ends with each teardown call once, in order
TeardownOnceInOrder ==
    LoopEnded =>
        /\ Len(LoopCalls) > 0 /\ LoopEndCause
        /\ \A k \in DOMAIN LoopCalls :
              LoopCalls[k].op \notin { TeardownOrder[j] : j \in 1..3 }
        /\ Exited => TornDown
\* no call follows bgpstream_destroy, and no call on the record follows
\* bgpstream_record_destroy
NoCallAfterDestroy ==
    /\ \A k \in CallIdx("bgpstream_destroy") : k = Len(calls)
    /\ \A k \in CallIdx("bgpstream_record_destroy") :
          \A j \in DOMAIN calls : j > k => calls[j].op \notin RecordOps
\* once the loop has ended it stays ended and pulls no more
NoPullAfterLoop ==
    LoopEnded => (LoopEnded' /\ Count(PullOp)' = Count(PullOp))

\* C17: whenever the pull loop ends (get_next_record returned 0 or a
\* negative value, or an element could not be serialized),
\* get_next_record is not called again and record_destroy, stop and destroy
\* run, each exactly once and in this order; no call on the engine or on
\* the record follows the destruction of its handle.
C17_TeardownAfterLoop ==
    /\ [](TeardownOnceInOrder /\ NoCallAfterDestroy)
    /\ [][NoPullAfterLoop]_vars
    /\ (LoopEnded ~> TornDown)
\* the loop ended by goto err after a record had been pulled, and the run
\* was torn down
C17_Witness ==
    /\ TornDown
    /\ exit_code = -1
    /\ Count(PullOp) > 1
    /\ \E k \in CallIdx("bgpstream_elem_snprintf") : ~calls[k].ok
\* the arguments of the words of a command line that are the option c with
\* its argument attached, in command-line order
OptArgs(av, c) ==
    LET at == { k \in DOMAIN av : Len(av[k]) > 2 /\ av[k][1] = "-" /\ av[k][2] = c }
        RECURSIVE From(_)
        From(k) ==
            IF k > Len(av) THEN <<>>
            ELSE (IF k \in at THEN << SubSeq(av[k], 3, Len(av[k])) >> ELSE <<>>)
                   \o From(k + 1)
    IN  From(1)
\* the place of a call in the order of programming (0: not part of it)
Rank(c) ==
    CASE c.op = "bgpstream_add_filter" ->
           (CASE c.type = "BGPSTREAM_FILTER_TYPE_PROJECT" -> 1
              [] c.type = "BGPSTREAM_FILTER_TYPE_COLLECTOR" -> 2
              [] c.type = "BGPSTREAM_FILTER_TYPE_RECORD_TYPE" -> 3)
      [] c.op = IntervalOp -> 4
      [] c.op = "bgpstream_add_rib_period_filter" -> 5
      [] c.op = "bgpstream_set_data_interface" -> 6
      [] c.op = "bgpstream_set_blocking" -> 7
      [] OTHER -> 0
IsProgramCall(c) == Rank(c) > 0
\* the calls of rank r of the sequence cs, in order
RankCalls(cs, r) ==
    LET OfRank(c) == Rank(c) = r
    IN  SelectSeq(cs, OfRank)
\* the engine has been programmed
Programmed ==
    \/ pc \in {"create_record", "start", "pull", "elems", "teardown", "err"}
    \/ (Exited /\ Count("bgpstream_set_data_interface") > 0)

\* C18: after validation the engine is programmed in a fixed order: one
\* add_filter per project, then per collector, then per record type, one
\* add_interval_filter per window (each list in command-line order,
\* duplicates included), add_rib_period_filter if and only if the rib
\* period is > 0, set_data_interface with the final interface id,
\* set_blocking if and only if -b was given; all of it before
\* record_create and start.
C18_EngineProgrammedInOrder ==
    LET prog == SelectSeq(calls, IsProgramCall)
        projects == RankCalls(prog, 1)
        collectors == RankCalls(prog, 2)
        types == RankCalls(prog, 3)
        windows == RankCalls(prog, 4)
        ws == OptArgs(argv, "w")
    IN  /\ \A k \in 1..(Len(prog) - 1) : Rank(prog[k]) <= Rank(prog[k + 1])
        /\ \A k \in CallIdx("bgpstream_record_create") \cup CallIdx("bgpstream_start") :
              /\ Programmed
              /\ \A j \in (k + 1)..Len(calls) : ~IsProgramCall(calls[j])
        /\ ~Programmed => prog = <<>>
        /\ Programmed =>
              /\ [k \in DOMAIN projects |-> projects[k].value] = OptArgs(argv, "p")
              /\ [k \in DOMAIN collectors |-> collectors[k].value] = OptArgs(argv, "c")
              /\ [k \in DOMAIN types |-> types[k].value] = OptArgs(argv, "t")
              /\ Len(windows) = Len(ws)
              /\ \A k \in DOMAIN windows :
                    /\ windows[k].start = cfg.windows[k].start
                    /\ windows[k].end = cfg.windows[k].end
                    /\ WellFormedWindow(ws[k]) => cfg.windows[k] = WindowOf(ws[k])
              /\ RankCalls(prog, 5) =
                    (IF cfg.rib_period > 0
                     THEN << [op |-> "bgpstream_add_rib_period_filter",
                              period |-> cfg.rib_period] >>
                     ELSE <<>>)
              /\ Given("P") <=> cfg.rib_period > 0
              /\ RankCalls(prog, 6) = << [op |-> "bgpstream_set_data_interface",
                                          id |-> FinalId(argv)] >>
              /\ Len(RankCalls(prog, 7)) = (IF Given("b") THEN 1 ELSE 0)
\* a run that gave a project, a window and -b and started the engine
C18_Witness ==
    /\ Count("bgpstream_start") = 1
    /\ Given("p") /\ Given("w") /\ Given("b")
    /\ Count("bgpstream_add_filter") = 1
    /\ Count("bgpstream_set_blocking") = 1
\* bgpstream_start succeeded and main is in the do/while loop
InLoop == pc \in {"pull", "elems"}

\* C19: once bgpstream_start has succeeded, and given that the engine ends
\* the stream (a stream yields stream.records records and stream.elems
\* elements per record at most, after which get_next_record returns a
\* value <= 0 and the element iterator NULL), main leaves the loop, runs
\* the teardown and exits.
C19_LoopTerminates == InLoop ~> TornDown
\* the whole stream was pulled, every record with all its elements, and
\* the run was torn down
C19_Witness ==
    /\ TornDown
    /\ Count(PullOp) = MaxRecords + 1
    /\ Count("bgpstream_elem_snprintf") = MaxRecords * MaxElems
\* the run ended on a usage error or on the help or option listing: all of
\* these print the usage text
UsageExit == Exited /\ Said(Usage)
\* the calls that program or drive the engine
DriveOps ==
    FilterOps \cup {"bgpstream_record_create", "bgpstream_start", PullOp}
\* the calls of validation: the creation of the engine, the option lookups
\* and listing, and the option setter
ValidationOps ==
    {"bgpstream_create", "bgpstream_get_data_interface_options",
     LookupOp, SetterOp}

\* C20: all validation precedes the programming of the engine.  On a run
\* that ends with a usage error or with the help or option listing none of
\* add_filter, add_interval_filter, add_rib_period_filter,
\* set_data_interface, set_blocking, record_create, start,
\* get_next_record was called; the only changes made to the engine are the
\* set_data_interface_option calls for the -o entries before the failing
\* or sentinel one.
C20_ValidationBeforeProgramming ==
    UsageExit =>
        /\ \A op \in DriveOps : Count(op) = 0
        /\ \A k \in DOMAIN calls : calls[k].op \in ValidationOps
        /\ Len(SetterCalls) <= Len(OArgs(argv))
        /\ SetterCalls = [j \in DOMAIN SetterCalls |-> SetterFor(OArgs(argv)[j])]
\* a run that set one option and then ended with a usage error at a later
\* -o entry, on a command line that has a window
C20_Witness ==
    /\ UsageExit
    /\ exit_code = -1
    /\ Len(SetterCalls) > 0
    /\ Said("ERROR: Malformed data interface option")
    /\ Given("w")
====
